---- MODULE Spec2Model ----
(***************************************************************************)
(* Provider dispatch and response normalisation of english-collector.      *)
(*                                                                         *)
(* The repository holds two copies of the serverless handler:              *)
(*   src/api/analyze.js    (gemini, deepseek, openrouter; five keyword     *)
(*                          fields)                                        *)
(*   src/unnamed/part_000  (gemini, deepseek; four keyword fields)         *)
(* Both are modelled; the variable impl says which file serves a request.  *)
(*                                                                         *)
(* JavaScript values are tagged records, JavaScript strings are sequences  *)
(* of lexical tokens (so that trim, the fence regexes, the brace match and *)
(* JSON.parse act on text), thrown exceptions are result records.          *)
(***************************************************************************)
EXTENDS Integers, Sequences, FiniteSets, TLC

VARIABLES impl, req, pc, adapter, calls, response, res, parseCalls,
          nVal, nText, nStep, nFirst, nOut

vars == <<impl, req, pc, adapter, calls, response, res, parseCalls,
          nVal, nText, nStep, nFirst, nOut>>

dispatchVars == <<req, pc, adapter, calls, response, res, parseCalls>>
normVars == <<nVal, nText, nStep, nFirst, nOut>>

(***************************************************************************)
(* Bounds of the model and constants of the program.                       *)
(***************************************************************************)
\* longest keywords array an upstream completion carries in the model
MaxInputKeywords == 6
\* .slice(0, 5)
KeywordLimit == 5

(***************************************************************************)
(* Text: a JavaScript string is a sequence of tokens.                      *)
(***************************************************************************)
W(s) == [k |-> "word", s |-> s]
P(s) == [k |-> "punct", s |-> s]
WS == [k |-> "ws"]
Fence == [k |-> "fence"]
StrTok(text) == [k |-> "str", text |-> text]
NumTok(n) == [k |-> "num", n |-> n]
LitTok(s) == [k |-> "lit", s |-> s]

Txt(s) == <<W(s)>>

(***************************************************************************)
(* JavaScript values.                                                      *)
(***************************************************************************)
Undefined == [t |-> "undefined"]
Null == [t |-> "null"]
Str(text) == [t |-> "string", s |-> text]
Num(n) == [t |-> "number", n |-> n]
Bool(b) == [t |-> "boolean", b |-> b]
Arr(a) == [t |-> "array", a |-> a]
Obj(o) == [t |-> "object", o |-> o]

S(s) == Str(Txt(s))
EmptyStr == Str(<<>>)
EmptyMap == [x \in {} |-> Null]
Put(o, key, v) == [x \in DOMAIN o \cup {key} |-> IF x = key THEN v ELSE o[x]]

\* !v is FALSE
Truthy(v) ==
  CASE v.t = "undefined" -> FALSE
    [] v.t = "null" -> FALSE
    [] v.t = "string" -> v.s # <<>>
    [] v.t = "number" -> v.n # 0
    [] v.t = "boolean" -> v.b
    [] OTHER -> TRUE

\* a || b
OrElse(a, b) == IF Truthy(a) THEN a ELSE b

(***************************************************************************)
(* Exceptions: an evaluation either returns a value or throws an error     *)
(* with a message (a string).                                              *)
(***************************************************************************)
Return(v) == [thrown |-> FALSE, value |-> v]
Throw(msg) == [thrown |-> TRUE, message |-> msg]

\* messages of the platform's own exceptions
TypeErrorMessage == Txt("TypeError: cannot read properties")
SyntaxErrorMessage == Txt("SyntaxError: unexpected token")
NetworkErrorMessage == Txt("fetch failed")

\* v.key : throws on null and undefined, undefined when v has no such property
NoProperty(v) == v.t \in {"undefined", "null"}
Get(v, key) ==
  IF v.t = "object" /\ Txt(key) \in DOMAIN v.o THEN v.o[Txt(key)] ELSE Undefined

\* v?.key
OptGet(v, key) == IF NoProperty(v) THEN Undefined ELSE Get(v, key)

\* v?.[0]
OptFirst(v) ==
  IF v.t = "array" /\ Len(v.a) >= 1 THEN v.a[1] ELSE Undefined

\* '' + v, for the values a request body carries
ToText(v) ==
  CASE v.t = "string" -> v.s
    [] v.t = "undefined" -> Txt("undefined")
    [] v.t = "null" -> Txt("null")
    [] v.t = "number" -> <<NumTok(v.n)>>
    [] v.t = "boolean" -> Txt(IF v.b THEN "true" ELSE "false")
    [] OTHER -> Txt("[object Object]")

(***************************************************************************)
(* JSON.parse and JSON.stringify on token text.                            *)
(***************************************************************************)
RECURSIVE SkipWs(_)
SkipWs(t) == IF t # <<>> /\ Head(t).k = "ws" THEN SkipWs(Tail(t)) ELSE t

ParseFail == [ok |-> FALSE]
ParseOk(v, rest) == [ok |-> TRUE, v |-> v, rest |-> rest]

RECURSIVE ParseValue(_), ParseMembers(_, _), ParseElements(_, _)

ParseValue(t) ==
  LET u == SkipWs(t) IN
  IF u = <<>> THEN ParseFail
  ELSE LET h == Head(u) IN
    CASE h.k = "str" -> ParseOk(Str(h.text), Tail(u))
      [] h.k = "num" -> ParseOk(Num(h.n), Tail(u))
      [] h.k = "lit" ->
           ParseOk(CASE h.s = "null" -> Null
                     [] h.s = "true" -> Bool(TRUE)
                     [] OTHER -> Bool(FALSE), Tail(u))
      [] h = P("{") ->
           LET a == SkipWs(Tail(u)) IN
           IF a # <<>> /\ Head(a) = P("}") THEN ParseOk(Obj(EmptyMap), Tail(a))
           ELSE ParseMembers(a, EmptyMap)
      [] h = P("[") ->
           LET a == SkipWs(Tail(u)) IN
           IF a # <<>> /\ Head(a) = P("]") THEN ParseOk(Arr(<<>>), Tail(a))
           ELSE ParseElements(a, <<>>)
      [] OTHER -> ParseFail

ParseMembers(t, o) ==
  LET u == SkipWs(t) IN
  IF u = <<>> \/ Head(u).k # "str" THEN ParseFail
  ELSE LET a == SkipWs(Tail(u)) IN
    IF a = <<>> \/ Head(a) # P(":") THEN ParseFail
    ELSE LET r == ParseValue(Tail(a)) IN
      IF ~r.ok THEN ParseFail
      ELSE LET o2 == Put(o, Head(u).text, r.v)
               b == SkipWs(r.rest) IN
        IF b = <<>> THEN ParseFail
        ELSE IF Head(b) = P(",") THEN ParseMembers(Tail(b), o2)
        ELSE IF Head(b) = P("}") THEN ParseOk(Obj(o2), Tail(b))
        ELSE ParseFail

ParseElements(t, acc) ==
  LET r == ParseValue(t) IN
  IF ~r.ok THEN ParseFail
  ELSE LET acc2 == Append(acc, r.v)
           b == SkipWs(r.rest) IN
    IF b = <<>> THEN ParseFail
    ELSE IF Head(b) = P(",") THEN ParseElements(Tail(b), acc2)
    ELSE IF Head(b) = P("]") THEN ParseOk(Arr(acc2), Tail(b))
    ELSE ParseFail

\* JSON.parse(text): the value, or a SyntaxError
JSONparse(text) ==
  LET r == ParseValue(text) IN
  IF r.ok /\ SkipWs(r.rest) = <<>> THEN Return(r.v)
  ELSE Throw(SyntaxErrorMessage)

\* the order in which JSON.stringify writes the properties the model uses
KeyOrder ==
  <<"translation", "keywords", "word", "phonetic", "roots", "origin",
    "meaning", "note">>

RECURSIVE JSONstringify(_), StringifyElements(_, _), StringifyMembers(_, _, _)

JSONstringify(v) ==
  CASE v.t = "string" -> <<StrTok(v.s)>>
    [] v.t = "number" -> <<NumTok(v.n)>>
    [] v.t = "boolean" -> <<LitTok(IF v.b THEN "true" ELSE "false")>>
    [] v.t = "array" -> <<P("[")>> \o StringifyElements(v.a, 1) \o <<P("]")>>
    [] v.t = "object" -> <<P("{")>> \o StringifyMembers(v.o, 1, TRUE) \o <<P("}")>>
    [] OTHER -> <<LitTok("null")>>

StringifyElements(a, i) ==
  IF i > Len(a) THEN <<>>
  ELSE (IF i > 1 THEN <<P(",")>> ELSE <<>>)
       \o JSONstringify(a[i]) \o StringifyElements(a, i + 1)

StringifyMembers(o, i, first) ==
  IF i > Len(KeyOrder) THEN <<>>
  ELSE IF Txt(KeyOrder[i]) \in DOMAIN o /\ o[Txt(KeyOrder[i])].t # "undefined"
  THEN (IF first THEN <<>> ELSE <<P(",")>>)
       \o <<StrTok(Txt(KeyOrder[i])), P(":")>>
       \o JSONstringify(o[Txt(KeyOrder[i])])
       \o StringifyMembers(o, i + 1, FALSE)
  ELSE StringifyMembers(o, i + 1, first)

(***************************************************************************)
(* parseAIResponse                                                         *)
(***************************************************************************)
IsWs(tok) == tok.k = "ws"

\* String.prototype.trim
trim(t) ==
  LET keep == {i \in 1..Len(t) : ~IsWs(t[i])} IN
  IF keep = {} THEN <<>>
  ELSE SubSeq(t, CHOOSE i \in keep : \A j \in keep : i <= j,
                 CHOOSE i \in keep : \A j \in keep : j <= i)

\* the word json in any letter case (the i flag)
IsJsonWord(tok) == tok.k = "word" /\ tok.s \in {"json", "JSON", "Json"}

\* .replace(/^```json\s*/i, '')
StripJsonFence(t) ==
  IF Len(t) >= 2 /\ t[1] = Fence /\ IsJsonWord(t[2])
  THEN SkipWs(SubSeq(t, 3, Len(t)))
  ELSE t

\* .replace(/^```\s*/i, '')
StripLeadingFence(t) ==
  IF Len(t) >= 1 /\ t[1] = Fence THEN SkipWs(Tail(t)) ELSE t

\* .replace(/\s*```$/i, '')
StripTrailingFence(t) ==
  IF Len(t) >= 1 /\ t[Len(t)] = Fence
  THEN LET body == SubSeq(t, 1, Len(t) - 1)
           keep == {i \in 1..Len(body) : ~IsWs(body[i])} IN
       IF keep = {} THEN <<>>
       ELSE SubSeq(body, 1, CHOOSE i \in keep : \A j \in keep : j <= i)
  ELSE t

cleanText(t) == StripTrailingFence(StripLeadingFence(StripJsonFence(trim(t))))

\* cleanText.match(/\{[\s\S]*\}/): from the first { to the last } after it
NoMatch == [found |-> FALSE]
jsonMatch(t) ==
  LET opens == {i \in 1..Len(t) : t[i] = P("{")} IN
  IF opens = {} THEN NoMatch
  ELSE LET first == CHOOSE i \in opens : \A j \in opens : i <= j
           closes == {i \in 1..Len(t) : t[i] = P("}") /\ i > first} IN
       IF closes = {} THEN NoMatch
       ELSE [found |-> TRUE,
             text |-> SubSeq(t, first, CHOOSE i \in closes : \A j \in closes : j <= i)]

\* the properties the map callback writes, src/api/analyze.js
KeywordFields == <<"word", "phonetic", "roots", "origin", "meaning">>
\* the properties the map callback writes, src/unnamed/part_000
KeywordFields_part000 == <<"word", "roots", "origin", "meaning">>

FieldsOf(file) == IF file = "analyze" THEN KeywordFields ELSE KeywordFields_part000

\* k => ({ word: k.word || '', ... }) for a k that has properties
coerceKeyword(fields, k) ==
  Obj([f \in {Txt(fields[i]) : i \in 1..Len(fields)} |->
         OrElse(IF k.t = "object" /\ f \in DOMAIN k.o THEN k.o[f] ELSE Undefined,
                EmptyStr)])

\* .slice(0, 5)
sliceKeywords(a) ==
  SubSeq(a, 1, IF Len(a) < KeywordLimit THEN Len(a) ELSE KeywordLimit)

\* parsed.keywords.map(...).slice(0, 5): reading k.word of null or undefined throws
mapKeywords(fields, a) ==
  IF \E i \in 1..Len(a) : NoProperty(a[i]) THEN Throw(TypeErrorMessage)
  ELSE Return(Arr(sliceKeywords([i \in 1..Len(a) |-> coerceKeyword(fields, a[i])])))

\* if (!parsed.translation) parsed.translation = ''
defaultTranslation(parsed) ==
  IF Truthy(Get(parsed, "translation")) THEN parsed
  ELSE Obj(Put(parsed.o, Txt("translation"), EmptyStr))

\* if (!Array.isArray(parsed.keywords)) parsed.keywords = []
defaultKeywords(parsed) ==
  IF Get(parsed, "keywords").t = "array" THEN parsed
  ELSE Obj(Put(parsed.o, Txt("keywords"), Arr(<<>>)))

\* message of the error the catch block throws
FailedToParse(inner) == Txt("Failed to parse AI response: ") \o inner
CouldNotParse == Txt("Could not parse AI response as JSON")

\* the body of the try block, given the candidate text (which starts with {,
\* so that what JSON.parse returns is an object)
coerce(fields, candidate) ==
  LET p == JSONparse(candidate) IN
  IF p.thrown THEN p
  ELSE LET parsed == defaultKeywords(defaultTranslation(p.value))
           kws == mapKeywords(fields, Get(parsed, "keywords").a) IN
       IF kws.thrown THEN kws
       ELSE Return(Obj(Put(parsed.o, Txt("keywords"), kws.value)))

parseAIResponse(fields, text) ==
  IF text.t # "string" THEN Throw(TypeErrorMessage)
  ELSE LET m == jsonMatch(cleanText(text.s)) IN
    IF ~m.found THEN Throw(CouldNotParse)
    ELSE LET r == coerce(fields, m.text) IN
      IF r.thrown THEN Throw(FailedToParse(r.message)) ELSE r

(***************************************************************************)
(* Inputs: request bodies, upstream responses, completion texts.           *)
(***************************************************************************)
Files == {"analyze", "part000"}

Obj1(k1, v1) == Obj(Put(EmptyMap, Txt(k1), v1))
Obj2(k1, v1, k2, v2) == Obj(Put(Put(EmptyMap, Txt(k1), v1), Txt(k2), v2))

\* a keyword object with all five properties, distinct for each position
FullKeyword(i) ==
  Obj([f \in {Txt(KeywordFields[j]) : j \in 1..Len(KeywordFields)} |->
         Str(f \o <<NumTok(i)>>)])

\* keyword elements of other shapes
OddKeywords ==
  { Obj1("word", S("run")),
    Obj(Put(Put(Put(Put(Put(EmptyMap, Txt("word"), EmptyStr), Txt("phonetic"), Null),
        Txt("roots"), Num(0)), Txt("origin"), Bool(FALSE)), Txt("note"), S("n"))),
    Obj2("word", Num(7), "meaning", Arr(<<S("m")>>)),
    Null, Num(3), S("plain"), Arr(<<S("nested")>>) }

\* keywords arrays: n distinct full keywords, at most one replaced by an odd one
KeywordArrays ==
  { [i \in 1..n |-> FullKeyword(i)] : n \in 0..MaxInputKeywords }
  \cup
  { [i \in 1..n |-> IF i = p THEN odd ELSE FullKeyword(i)] :
      n \in 1..MaxInputKeywords, p \in 1..MaxInputKeywords, odd \in OddKeywords }

Translations == {Undefined, Null, EmptyStr, S("hi"), Num(42)}

WithTranslation(tr, o) ==
  IF tr.t = "undefined" THEN o ELSE Obj(Put(o.o, Txt("translation"), tr))

\* the JSON objects a completion carries
CompletionValues ==
  { WithTranslation(tr, Obj1("keywords", Arr(a))) :
      tr \in Translations, a \in KeywordArrays }
  \cup { WithTranslation(tr, Obj(EmptyMap)) : tr \in Translations }
  \cup { WithTranslation(tr, Obj1("keywords", S("none"))) : tr \in Translations }

Decorations == {"plain", "jsonfence", "fence", "prose"}

Decorate(d, text) ==
  CASE d = "jsonfence" -> <<WS, Fence, W("JSON"), WS>> \o text \o <<WS, Fence, WS>>
    [] d = "fence" -> <<Fence, WS>> \o text \o <<WS, Fence>>
    [] d = "prose" -> <<W("Sure"), WS>> \o text \o <<WS, W("Hope"), W("this"), W("helps")>>
    [] OTHER -> text

\* texts that are no serialisation of a JSON value
BrokenTexts ==
  { <<W("no"), WS, W("json"), WS, W("here")>>,
    <<P("{"), W("oops"), P("}")>>,
    <<P("{"), StrTok(Txt("translation")), P(":"), StrTok(Txt("x")), P(",")>>,
    <<P("}"), WS, P("{")>>,
    <<P("{"), StrTok(Txt("translation")), P(":"), StrTok(Txt("x")), P("}"),
      WS, W("or"), WS, P("{"), P("}")>>,
    <<Fence, WS, Fence>>,
    <<>> }

\* the completion texts the dispatcher's runs see
DispatchTexts ==
  { Str(JSONstringify(Obj2("translation", S("hi"), "keywords", Arr(<<>>)))),
    Str(Decorate("jsonfence",
          JSONstringify(Obj2("translation", S("hi"), "keywords",
                             Arr(<<FullKeyword(1), Obj1("word", S("run"))>>))))),
    Str(JSONstringify(Obj1("keywords",
          Arr([i \in 1..MaxInputKeywords |-> FullKeyword(i)])))),
    Str(JSONstringify(Obj2("translation", Num(42), "keywords", Arr(<<Null>>)))),
    Str(<<W("no"), WS, W("json"), WS, W("here")>>),
    Str(<<P("{"), W("oops"), P("}")>>),
    EmptyStr,
    Num(42) }

GeminiEnvelope(text) ==
  Obj1("candidates", Arr(<<Obj1("content", Obj1("parts", Arr(<<Obj1("text", text)>>)))>>))
ChatEnvelope(text) ==
  Obj1("choices", Arr(<<Obj1("message", Obj1("content", text))>>))
ErrorBody(m) == Obj1("error", Obj1("message", m))

\* what response.json() finds in the body: a JSON value, or no JSON at all
Unparsable == [t |-> "unparsable"]
ResponseBodies ==
  { GeminiEnvelope(x) : x \in DispatchTexts }
  \cup { ChatEnvelope(x) : x \in DispatchTexts }
  \cup { ErrorBody(S("bad key")), ErrorBody(S("quota exceeded")), ErrorBody(EmptyStr),
         Obj1("error", Null), Obj1("error", S("denied")),
         Obj1("candidates", Arr(<<>>)), Obj(EmptyMap), Null, Unparsable }

Responses ==
  { [ok |-> s = 200, status |-> s, json |-> b] : s \in {200, 401, 502}, b \in ResponseBodies }

Methods == {"POST", "OPTIONS", "GET"}
RequestBodies ==
  [ provider : {Undefined, Null, S("gemini"), S("deepseek"), S("openrouter"),
                S("claude"), S("Gemini")},
    model : {Undefined, S("m1")},
    apiKey : {Undefined, Null, EmptyStr, S("sk-1")},
    prompt : {Undefined, EmptyStr, Num(0), S("analyze this")} ]

(***************************************************************************)
(* handler                                                                 *)
(***************************************************************************)
NoResponse == [ok |-> FALSE, status |-> 0, json |-> Unparsable]
NotSent == [sent |-> 0, status |-> 0, body |-> Undefined]
NotRun == [thrown |-> FALSE, value |-> Undefined]

\* res.status(code).json(body) / .end()
Send(code, body) == [sent |-> res.sent + 1, status |-> code, body |-> body]
Message(text) == Obj1("message", Str(text))

\* a catch block that answers 400
Caught_as400(message) ==
  Send(400, Message(IF message # <<>> THEN message ELSE Txt("Internal server error")))

\* catch (error): res.status(500).json({ message: error.message || 'Internal server error' })
Caught(message) ==
  Send(500, Message(IF message # <<>> THEN message ELSE Txt("Internal server error")))

\* the if / else if chain on provider, src/api/analyze.js
selectAdapter(provider) ==
  IF provider = S("gemini") THEN "gemini"
  ELSE IF provider = S("deepseek") THEN "deepseek"
  ELSE IF provider = S("openrouter") THEN "openrouter"
  ELSE "none"

\* the if / else if chain on provider, src/unnamed/part_000
selectAdapter_part000(provider) ==
  IF provider = S("gemini") THEN "gemini"
  ELSE IF provider = S("deepseek") THEN "deepseek"
  ELSE "none"

AdapterFor(file, provider) ==
  IF file = "analyze" THEN selectAdapter(provider) ELSE selectAdapter_part000(provider)

\* the message of the final else branch
unknownProvider(provider) == Txt("Unknown provider: ") \o ToText(provider)
unknownProvider_part000(provider) == Txt("Unknown provider")

UnknownProviderFor(file, provider) ==
  IF file = "analyze" THEN unknownProvider(provider) ELSE unknownProvider_part000(provider)

\* the request each adapter hands to fetch
outboundRequest(a, body) ==
  CASE a = "gemini" ->
         [host |-> "generativelanguage.googleapis.com", auth |-> "query",
          credential |-> body.apiKey, model |-> body.model, prompt |-> body.prompt,
          system |-> FALSE, attribution |-> FALSE, temperature10 |-> 3, maxTokens |-> 2048]
    [] a = "deepseek" ->
         [host |-> "api.deepseek.com", auth |-> "bearer",
          credential |-> body.apiKey, model |-> body.model, prompt |-> body.prompt,
          system |-> TRUE, attribution |-> FALSE, temperature10 |-> 3, maxTokens |-> 2048]
    [] OTHER ->
         [host |-> "openrouter.ai", auth |-> "bearer",
          credential |-> body.apiKey, model |-> body.model, prompt |-> body.prompt,
          system |-> TRUE, attribution |-> TRUE, temperature10 |-> 3, maxTokens |-> 2048]

\* a validation that forgets the prompt
validationError_keyOnly(body) ==
  IF ~Truthy(body.apiKey) THEN Txt("API key is required") ELSE <<>>

\* if (!apiKey) ...; if (!prompt) ...: the message of the 400 answer, <<>> when
\* both are present
validationError(body) ==
  IF ~Truthy(body.apiKey) THEN Txt("API key is required")
  ELSE IF ~Truthy(body.prompt) THEN Txt("Prompt is required")
  ELSE <<>>

\* handler, up to its first await
handlerEntry ==
  /\ pc = "entry"
  /\ IF req.method = "OPTIONS" THEN
       /\ res' = Send(200, Undefined)
       /\ pc' = "done"
       /\ UNCHANGED <<adapter, calls>>
     ELSE IF req.method # "POST" THEN
       /\ res' = Send(405, Message(Txt("Method not allowed")))
       /\ pc' = "done"
       /\ UNCHANGED <<adapter, calls>>
     ELSE IF validationError(req.body) # <<>> THEN
       /\ res' = Send(400, Message(validationError(req.body)))
       /\ pc' = "done"
       /\ UNCHANGED <<adapter, calls>>
     ELSE IF AdapterFor(impl, req.body.provider) = "none" THEN
       /\ res' = Send(400, Message(UnknownProviderFor(impl, req.body.provider)))
       /\ pc' = "done"
       /\ UNCHANGED <<adapter, calls>>
     ELSE
       /\ adapter' = AdapterFor(impl, req.body.provider)
       /\ calls' = Append(calls, outboundRequest(AdapterFor(impl, req.body.provider), req.body))
       /\ pc' = "fetch"
       /\ UNCHANGED res
  /\ UNCHANGED <<impl, req, response, parseCalls>>
  /\ UNCHANGED normVars

\* await fetch(...) rejects: the exception reaches the handler's catch
fetchRejects ==
  /\ pc = "fetch"
  /\ \E m \in {NetworkErrorMessage, <<>>} : res' = Caught(m)
  /\ pc' = "done"
  /\ UNCHANGED <<impl, req, adapter, calls, response, parseCalls>>
  /\ UNCHANGED normVars

\* await fetch(...) resolves; the adapter goes on to await response.json()
fetchResolves ==
  /\ pc = "fetch"
  /\ \E r \in Responses :
       /\ response' = r
       /\ pc' = IF r.ok THEN "json" ELSE "errorJson"
  /\ UNCHANGED <<impl, req, adapter, calls, res, parseCalls>>
  /\ UNCHANGED normVars

GenericFailure(a) ==
  IF a = "gemini" THEN Txt("Gemini API request failed")
  ELSE Txt("DeepSeek API request failed")

\* reading error.message instead of error.error?.message
errorMessage_topLevel(error) == Get(error, "message")

\* error.error?.message, of a value that has properties
errorMessage(error) == OptGet(Get(error, "error"), "message")

\* callGemini, callDeepSeek: the !response.ok branch
failedCall(a, r) ==
  IF r.json = Unparsable THEN Throw(SyntaxErrorMessage)
  ELSE IF NoProperty(r.json) THEN Throw(TypeErrorMessage)
  ELSE Throw(ToText(OrElse(errorMessage(r.json), Str(GenericFailure(a)))))

\* callOpenRouter: the !response.ok branch
failedCallOpenRouter(r) ==
  LET errorData == IF r.json = Unparsable THEN Obj(EmptyMap) ELSE r.json IN
  IF NoProperty(errorData) THEN Throw(TypeErrorMessage)
  ELSE Throw(ToText(OrElse(errorMessage(errorData),
                           Str(Txt("OpenRouter error ") \o <<NumTok(r.status)>>))))

\* an unsuccessful response answered by calling the provider again
errorBodySettles_retry ==
  /\ pc = "errorJson"
  /\ calls' = Append(calls, outboundRequest(adapter, req.body))
  /\ pc' = "fetch"
  /\ UNCHANGED <<impl, req, adapter, response, res, parseCalls>>
  /\ UNCHANGED normVars

\* await response.json() of an unsuccessful response settles
errorBodySettles ==
  /\ pc = "errorJson"
  /\ res' = Caught((IF adapter = "openrouter" THEN failedCallOpenRouter(response)
                    ELSE failedCall(adapter, response)).message)
  /\ pc' = "done"
  /\ UNCHANGED <<impl, req, adapter, calls, response, parseCalls>>
  /\ UNCHANGED normVars

\* data.candidates?.[0]?.content?.parts?.[0]?.text
geminiText(data) ==
  OptGet(OptFirst(OptGet(OptGet(OptFirst(Get(data, "candidates")), "content"), "parts")), "text")

\* data.choices?.[0]?.message?.content
chatText(data) == OptGet(OptGet(OptFirst(Get(data, "choices")), "message"), "content")

NoResponseFrom(a) ==
  CASE a = "gemini" -> Txt("No response from Gemini")
    [] a = "deepseek" -> Txt("No response from DeepSeek")
    [] OTHER -> Txt("No response from OpenRouter")

\* the text the adapter extracts from a successful response, or what it throws
extractText(a, r) ==
  IF r.json = Unparsable THEN Throw(SyntaxErrorMessage)
  ELSE IF NoProperty(r.json) THEN Throw(TypeErrorMessage)
  ELSE LET text == IF a = "gemini" THEN geminiText(r.json) ELSE chatText(r.json) IN
       IF ~Truthy(text) THEN Throw(NoResponseFrom(a)) ELSE Return(text)

\* await response.json() of a successful response settles; the adapter extracts
\* the text, parseAIResponse runs, the handler answers
bodySettles ==
  /\ pc = "json"
  /\ LET text == extractText(adapter, response) IN
     IF text.thrown THEN
       /\ res' = Caught(text.message)
       /\ UNCHANGED parseCalls
     ELSE LET result == parseAIResponse(FieldsOf(impl), text.value) IN
       /\ parseCalls' = parseCalls + 1
       /\ res' = IF result.thrown THEN Caught(result.message)
                 ELSE Send(200, result.value)
  /\ pc' = "done"
  /\ UNCHANGED <<impl, req, adapter, calls, response>>
  /\ UNCHANGED normVars

Init ==
  /\ impl \in Files
  /\ req \in [method : Methods, body : RequestBodies]
  /\ pc = "entry"
  /\ adapter = "none"
  /\ calls = <<>>
  /\ response = NoResponse
  /\ res = NotSent
  /\ parseCalls = 0
  /\ nVal = Undefined
  /\ nText = <<>>
  /\ nStep = "off"
  /\ nFirst = NotRun
  /\ nOut = NotRun

Next ==
  \/ handlerEntry
  \/ fetchRejects
  \/ fetchResolves
  \/ errorBodySettles
  \/ bodySettles

Spec == Init /\ [][Next]_vars

(***************************************************************************)
(* The normaliser on its own: parseAIResponse applied to a text, its       *)
(* result serialised, the serialisation normalised again.                  *)
(***************************************************************************)
normalize ==
  /\ nStep = "input"
  /\ nFirst' = parseAIResponse(FieldsOf(impl), Str(nText))
  /\ nStep' = "normalized"
  /\ UNCHANGED <<impl, nVal, nText, nOut>>
  /\ UNCHANGED dispatchVars

serialize ==
  /\ nStep = "normalized"
  /\ ~nFirst.thrown
  /\ nText' = JSONstringify(nFirst.value)
  /\ nStep' = "serialized"
  /\ UNCHANGED <<impl, nVal, nFirst, nOut>>
  /\ UNCHANGED dispatchVars

renormalize ==
  /\ nStep = "serialized"
  /\ nOut' = parseAIResponse(FieldsOf(impl), Str(nText))
  /\ nStep' = "renormalized"
  /\ UNCHANGED <<impl, nVal, nText, nFirst>>
  /\ UNCHANGED dispatchVars

NormInit ==
  /\ impl \in Files
  /\ \/ /\ nVal \in CompletionValues
        /\ \E d \in Decorations : nText = Decorate(d, JSONstringify(nVal))
     \/ /\ nVal = Undefined
        /\ nText \in BrokenTexts
  /\ nStep = "input"
  /\ nFirst = NotRun
  /\ nOut = NotRun
  /\ req = [method |-> "POST",
            body |-> [provider |-> Undefined, model |-> Undefined,
                      apiKey |-> Undefined, prompt |-> Undefined]]
  /\ pc = "off"
  /\ adapter = "none"
  /\ calls = <<>>
  /\ response = NoResponse
  /\ res = NotSent
  /\ parseCalls = 0

NormNext == normalize \/ serialize \/ renormalize

NormSpec == NormInit /\ [][NormNext]_vars

(***************************************************************************)
(* Properties of the dispatcher (under Spec).                              *)
(***************************************************************************)
Dispatching == pc # "off"
IsPost == Dispatching /\ req.method = "POST"
Done == Dispatching /\ pc = "done"

\* what the request carries, read off the request alone
HasCredential == Truthy(req.body.apiKey)
HasPrompt == Truthy(req.body.prompt)
RegisteredProviders == {S("gemini"), S("deepseek"), S("openrouter")}
HostOf(provider) ==
  CASE provider = S("gemini") -> "generativelanguage.googleapis.com"
    [] provider = S("deepseek") -> "api.deepseek.com"
    [] provider = S("openrouter") -> "openrouter.ai"
    [] OTHER -> "none"

\* what happened upstream, read off the state
Responded == response # NoResponse
Unsuccessful == Responded /\ ~response.ok
AnsweredWith(code, text) == res = [sent |-> 1, status |-> code, body |-> Message(text)]

C2_UnknownProvider ==
  (IsPost /\ HasCredential /\ HasPrompt /\ req.body.provider \notin RegisteredProviders) =>
     /\ calls = <<>>
     /\ pc = "done" =>
          AnsweredWith(400, Txt("Unknown provider: ") \o ToText(req.body.provider))

\* the same statement of the handler of src/api/analyze.js alone
UnknownProvider_analyze == impl = "analyze" => C2_UnknownProvider

\* C5: when the upstream response is unsuccessful and its body is no JSON, the
\* answer carries the generic "<provider> API request failed" or a message
\* derived from the HTTP status, never the body parser's own message.
C5_UnparsableErrorBody ==
  (Done /\ Unsuccessful /\ response.json = Unparsable) =>
     \/ AnsweredWith(500, Txt("Gemini API request failed"))
     \/ AnsweredWith(500, Txt("DeepSeek API request failed"))
     \/ AnsweredWith(500, Txt("OpenRouter API request failed"))
     \/ AnsweredWith(500, Txt("OpenRouter error ") \o <<NumTok(response.status)>>)

\* the same statement of callOpenRouter alone
UnparsableErrorBody_openrouter == adapter = "openrouter" => C5_UnparsableErrorBody

\* C6: when the upstream response is unsuccessful and its body is
\* {"error":{"message": m}} with m a non-empty string, the answer is 500 with
\* exactly m and parseAIResponse has not run.
C6_ErrorBodyMessage ==
  \A m \in {Txt("bad key"), Txt("quota exceeded")} :
    (Done /\ Unsuccessful /\ response.json = ErrorBody(Str(m))) =>
      /\ AnsweredWith(500, m)
      /\ parseCalls = 0

C6_Witness ==
  /\ Done /\ Unsuccessful
  /\ adapter = "openrouter"
  /\ response.json = ErrorBody(S("bad key"))
  /\ AnsweredWith(500, Txt("bad key"))
  /\ parseCalls = 0

\* C7: a dispatch issues at most one outbound request, to the host of the
\* provider the request names and only after validation; parseAIResponse runs
\* at most once and only after that request was answered; once the handler has
\* answered, nothing more happens (no retry, no other provider, no later stage).
C7_Step ==
  /\ pc # "done"
  /\ Len(calls') <= 1
  /\ calls' # calls =>
       /\ pc = "entry" /\ calls = <<>>
       /\ HasCredential /\ HasPrompt
       /\ calls'[1].host = HostOf(req.body.provider)
  /\ parseCalls' # parseCalls =>
       /\ pc = "json" /\ parseCalls = 0 /\ parseCalls' = 1
       /\ Len(calls) = 1 /\ Responded
  /\ res'.sent # res.sent => pc' = "done" /\ res'.sent = 1

C7_SingleAttempt == [][C7_Step]_vars

C7_Witness ==
  /\ Done /\ IsPost
  /\ Len(calls) = 1
  /\ calls[1].host = "api.deepseek.com"
  /\ res.status = 500
  /\ parseCalls = 1

\* the stages of a dispatch that has ended, read off the request and the
\* upstream response
Validated == HasCredential /\ HasPrompt
Recognised == AdapterFor(impl, req.body.provider) # "none"
CallSucceeded ==
  /\ Responded /\ response.ok
  /\ ~extractText(adapter, response).thrown
ParseSucceeded ==
  /\ CallSucceeded
  /\ ~parseAIResponse(FieldsOf(impl), extractText(adapter, response).value).thrown

Normalized == nStep \in {"normalized", "serialized", "renormalized"}
Returned == Normalized /\ ~nFirst.thrown

FiveFields == {Txt("word"), Txt("phonetic"), Txt("roots"), Txt("origin"), Txt("meaning")}

\* every one of the five fields is there and is not undefined
HasFiveFields(k) ==
  /\ k.t = "object"
  /\ \A f \in FiveFields : f \in DOMAIN k.o /\ k.o[f].t # "undefined"

\* C3: every result parseAIResponse returns has at most 5 keywords, each with
\* the five fields word, phonetic, roots, origin, meaning present, and a
\* translation that is a string.
C3_ResultShape ==
  Returned =>
    /\ nFirst.value.t = "object"
    /\ Get(nFirst.value, "keywords").t = "array"
    /\ Len(Get(nFirst.value, "keywords").a) <= 5
    /\ \A i \in 1..Len(Get(nFirst.value, "keywords").a) :
         HasFiveFields(Get(nFirst.value, "keywords").a[i])
    /\ Get(nFirst.value, "translation").t = "string"

\* the part of C3 that src/api/analyze.js keeps: at most 5 keywords, each with
\* the five fields, and a translation that is never falsy unless it is ""
ResultShape_analyze ==
  (impl = "analyze" /\ Returned) =>
    /\ Get(nFirst.value, "keywords").t = "array"
    /\ Len(Get(nFirst.value, "keywords").a) <= 5
    /\ \A i \in 1..Len(Get(nFirst.value, "keywords").a) :
         HasFiveFields(Get(nFirst.value, "keywords").a[i])
    /\ \/ Get(nFirst.value, "translation") = EmptyStr
       \/ Truthy(Get(nFirst.value, "translation"))

\* the text between the first { and the last } parses as JSON
CandidateParses(text) ==
  /\ jsonMatch(cleanText(text)).found
  /\ ~JSONparse(jsonMatch(cleanText(text)).text).thrown

\* C4: whenever the JSON candidate parses, parseAIResponse returns a result,
\* whatever the parsed value holds (null, numbers, strings, nested arrays among
\* the keywords included).
C4_CoercionTotal ==
  (nStep = "normalized" /\ CandidateParses(nText)) => ~nFirst.thrown

\* the part of C4 that holds: coercion fails only when a keyword is null
CoercionTotal_exceptNull ==
  (nStep = "normalized" /\ CandidateParses(nText) /\ nFirst.thrown) =>
    /\ nFirst.message = FailedToParse(TypeErrorMessage)
    /\ Get(nVal, "keywords").t = "array"
    /\ \E i \in 1..Len(Get(nVal, "keywords").a) : Get(nVal, "keywords").a[i] = Null

\* a canonical result: exactly translation (a string) and keywords (at most 5
\* entries, each exactly the five fields, all strings)
IsCanonical(v) ==
  /\ v.t = "object"
  /\ DOMAIN v.o = {Txt("translation"), Txt("keywords")}
  /\ v.o[Txt("translation")].t = "string"
  /\ v.o[Txt("keywords")].t = "array"
  /\ Len(v.o[Txt("keywords")].a) <= 5
  /\ \A i \in 1..Len(v.o[Txt("keywords")].a) :
       LET k == v.o[Txt("keywords")].a[i] IN
       /\ k.t = "object"
       /\ DOMAIN k.o = FiveFields
       /\ \A f \in FiveFields : k.o[f].t = "string"

\* C9: normalising the serialisation of a canonical result R yields R, and a
\* canonical result of the normaliser, serialised and normalised again, is
\* returned unchanged.
C9_Idempotent ==
  /\ (nStep = "normalized" /\ IsCanonical(nVal) /\ nText = JSONstringify(nVal)) =>
       nFirst = Return(nVal)
  /\ (nStep = "renormalized" /\ IsCanonical(nFirst.value)) => nOut = nFirst

\* the same statement of parseAIResponse of src/api/analyze.js alone
Idempotent_analyze == impl = "analyze" => C9_Idempotent

\* the coercion C10 describes: each of the five fields taken from the input
\* when truthy, otherwise ""
Expected(k) ==
  Obj([f \in FiveFields |->
         IF f \in DOMAIN k.o /\ Truthy(k.o[f]) THEN k.o[f] ELSE EmptyStr])

\* C10: when keywords is a sequence of n objects the result has min(n, 5)
\* keywords, the i-th being the coercion of the i-th input element; when
\* keywords is no sequence the result has none.
C10_FirstFiveInOrder ==
  (nStep = "normalized" /\ nVal.t = "object") =>
    LET in == Get(nVal, "keywords") IN
    /\ (in.t = "array" /\ \A i \in 1..Len(in.a) : in.a[i].t = "object") =>
         /\ ~nFirst.thrown
         /\ Get(nFirst.value, "keywords").t = "array"
         /\ LET out == Get(nFirst.value, "keywords").a IN
            /\ Len(out) = (IF Len(in.a) < 5 THEN Len(in.a) ELSE 5)
            /\ \A i \in 1..Len(out) : out[i] = Expected(in.a[i])
    /\ in.t # "array" =>
         /\ ~nFirst.thrown
         /\ Get(nFirst.value, "keywords") = Arr(<<>>)

\* the same statement of parseAIResponse of src/api/analyze.js alone
FirstFiveInOrder_analyze == impl = "analyze" => C10_FirstFiveInOrder

====
